---- MODULE Spec2Model ----
(***************************************************************************)
(* A model of the task-tracking backend: the document store (projects,     *)
(* tasks, automation rules, badges, notifications), the request handlers   *)
(* of the task, project and automation controllers with the middleware     *)
(* that runs in front of them, and the automation engine (runAutomations). *)
(* The engine's source file, utils/automationEngine, is not among the      *)
(* source files; it is modelled from the specification's sections 4.2-4.4. *)
(***************************************************************************)
EXTENDS Integers, Sequences, FiniteSets, TLC

(* ------------------------------------------------------------------ *)
(* Bounds of the model                                                 *)
(* ------------------------------------------------------------------ *)
MaxTasks == 1
MaxRules == 2
MaxExec == 1
MaxFires == 2
MaxProjects == 3
MaxInvitations == 1

(* ------------------------------------------------------------------ *)
(* Universes the requests and the stored documents are drawn from      *)
(* ------------------------------------------------------------------ *)
Users == {"u1", "u2", "u3"}
ProjectIds == {"p1", "p2"}
\* the ids of the projects, in the order of their creation
ProjectNames == <<"p1", "p2", "p3", "p4">>
\* a project id that names no stored project
ProjectRefs == ProjectIds \cup {"p0"}
\* an absent optional field (undefined / null)
NoValue == "none"

DefaultStatuses == <<"To Do", "In Progress", "Done">>
\* the status lists an updateProject request may carry
StatusLists == {DefaultStatuses, <<"To Do", "Archived">>, <<>>}

TriggerKinds ==
  {"task_status_changed", "task_assigned", "task_due_date_passed",
   "task_created", "task_updated"}
\* the event kinds a lifecycle producer may submit; "task_deleted" is no trigger kind
EventKinds == TriggerKinds \cup {"task_deleted"}

(* ------------------------------------------------------------------ *)
(* Identifiers as JavaScript values: an ObjectId is an object, its     *)
(* toString() a string, and === never equates an object with a string  *)
(* ------------------------------------------------------------------ *)
ObjectId(v) == [t |-> "oid", v |-> v]
String(v) == [t |-> "str", v |-> v]
toString(x) == String(x.v)
StrictEquals(a, b) == a.t = "str" /\ b.t = "str" /\ a.v = b.v

\* protect: req.user = { id: user._id, ... }
protect(u) == [id |-> ObjectId(u)]

\* a faulty variant: both sides are converted to strings, as the middleware does
sameUserAsStrings(id, req) == StrictEquals(toString(ObjectId(id)), toString(req.id))

\* the controllers' test of a stored user id: id.toString() === req.user.id
sameUser(id, req) == StrictEquals(toString(ObjectId(id)), req.id)

(* ------------------------------------------------------------------ *)
(* State                                                               *)
(* ------------------------------------------------------------------ *)
VARIABLES
  projects,       \* the Project collection: id -> [owner, members, statuses]
  tasks,          \* the Task collection, in creation order (a task's id is its index)
  automations,    \* the Automation collection, in creation order
  badges,         \* User.badges: user -> sequence of badge names
  notifications,  \* the Notification collection
  fires,          \* by slot: the request served there, its runAutomations invocation
                  \* in flight or its response
  firings         \* per rule id: the successful firings so far, and the projects of their tasks

vars == <<projects, tasks, automations, badges, notifications, fires, firings>>

Slots == 1..MaxFires
RuleIds == 1..MaxRules

Range(s) == {s[i] : i \in DOMAIN s}

Idle == [pc |-> "idle"]
NoContext == [oldStatus |-> NoValue, oldAssignee |-> NoValue]

\* a faulty variant: the status is not checked against the project's statuses
hasStatusUnchecked(project, status) == TRUE

\* project.statuses.some((s) => s.name === status)
hasStatus(project, status) == \E i \in DOMAIN project.statuses : project.statuses[i] = status

\* project.members.some((member) => member.user.toString() === <a string>)
hasMember(project, user) ==
  \E i \in DOMAIN project.members :
    StrictEquals(toString(ObjectId(project.members[i].user)), String(user))

(* ------------------------------------------------------------------ *)
(* The automation engine (specification 4.2 - 4.4)                     *)
(* ------------------------------------------------------------------ *)
Event(kind, task, context) == [kind |-> kind, task |-> task, context |-> context]

\* a faulty variant: a status rule is compared with the status before the change
conditionHoldsOldStatus(rule, event) ==
  CASE event.kind = "task_status_changed" -> rule.trigger.value = event.context.oldStatus
    [] event.kind = "task_assigned" ->
         rule.trigger.value = NoValue \/ rule.trigger.value = event.task.assignee
    [] event.kind \in {"task_created", "task_updated", "task_due_date_passed"} -> TRUE
    [] OTHER -> FALSE

\* 4.2 (3): the kind-specific condition; an unrecognized kind never matches
conditionHolds(rule, event) ==
  CASE event.kind = "task_status_changed" -> rule.trigger.value = event.task.status
    [] event.kind = "task_assigned" ->
         rule.trigger.value = NoValue \/ rule.trigger.value = event.task.assignee
    [] event.kind \in {"task_created", "task_updated", "task_due_date_passed"} -> TRUE
    [] OTHER -> FALSE

\* 4.2: a rule qualifies iff it is active, of the event's kind, its condition holds
\* and it belongs to the task's project
qualifies(rule, event) ==
  /\ rule.active
  /\ rule.trigger.type = event.kind
  /\ conditionHolds(rule, event)
  /\ rule.project = event.task.project

\* a faulty variant: the qualifying rules, newest first
matchReversed(rules, event) ==
  LET m == SelectSeq(rules, LAMBDA r : qualifies(r, event))
  IN  [i \in DOMAIN m |-> m[Len(m) + 1 - i]]

\* 4.2: the qualifying rules, a subsequence preserving the rules' order
match(rules, event) == SelectSeq(rules, LAMBDA r : qualifies(r, event))

\* the Rule Store's find-by-project(active-only), in stored (creation) order
findActiveByProject(store, projectId) ==
  SelectSeq(store, LAMBDA r : r.project = projectId /\ r.active)

\* a faulty variant: inactive rules are loaded and matched too
qualifyingAnyState(store, event) ==
  SelectSeq(store, LAMBDA r : /\ r.project = event.task.project
                              /\ r.trigger.type = event.kind
                              /\ conditionHolds(r, event))

\* a faulty variant: the rules of every project are loaded and matched
qualifyingAnyProject(store, event) ==
  SelectSeq(store, LAMBDA r : /\ r.active
                              /\ r.trigger.type = event.kind
                              /\ conditionHolds(r, event))

\* 4.4: load the rules of task.project, pass them through the Matcher
qualifying(store, event) == match(findActiveByProject(store, event.task.project), event)

HistoryEntry(user, action, oldValue, newValue) ==
  [user |-> user, action |-> action, oldValue |-> oldValue, newValue |-> newValue]

\* a faulty variant: the entry is put in front of the history
pushFront(history, entry) == <<entry>> \o history

\* history.push(entry)
push(history, entry) == Append(history, entry)

Notification(recipient, type, relatedProject, relatedTask) ==
  [recipient |-> recipient, type |-> type,
   relatedProject |-> relatedProject, relatedTask |-> relatedTask]

\* 4.3: the effect of one action on the stored task, the badges and the
\* notifications, or the ActionError; the target is validated first, and fault is a
\* failure of the persistence layer when the effect is persisted
execute(action, taskId, fault) ==
  LET task == tasks[taskId]
      project == projects[task.project]
      failed(e) == [ok |-> FALSE, error |-> e, tasks |-> tasks, badges |-> badges,
                    notifications |-> notifications]
      done == [ok |-> TRUE, error |-> NoValue, tasks |-> tasks, badges |-> badges,
               notifications |-> notifications]
      persisted(r) == IF fault THEN failed("persistence_failure") ELSE r
  IN  CASE action.type = "change_status" ->
             IF hasStatus(project, action.param)
             THEN persisted([done EXCEPT !.tasks =
                    [tasks EXCEPT ![taskId].status = action.param,
                                  ![taskId].history =
                                     push(@, HistoryEntry(NoValue, "status_changed",
                                                          task.status, action.param))]])
             ELSE failed("invalid_status")
        [] action.type = "assign_user" ->
             IF hasMember(project, action.param)
             THEN persisted([done EXCEPT !.tasks =
                    [tasks EXCEPT ![taskId].assignee = action.param,
                                  ![taskId].history =
                                     push(@, HistoryEntry(NoValue, "assigned",
                                                          task.assignee, action.param))]])
             ELSE failed("not_a_member")
        [] action.type = "assign_badge" ->
             persisted([done EXCEPT !.badges =
                          [badges EXCEPT ![task.creator] = Append(@, action.param)]])
        [] action.type = "send_notification" ->
             persisted([done EXCEPT !.notifications =
                          Append(notifications,
                                 Notification(IF task.assignee # NoValue THEN task.assignee
                                              ELSE task.creator,
                                              "automation_triggered", task.project, taskId))])
        [] OTHER -> failed("unknown_action")

\* a faulty variant: the count is written back from the rule as it was loaded
persistExecutionStale(store, rule) ==
  [i \in DOMAIN store |->
     IF store[i].id = rule.id
     THEN [store[i] EXCEPT !.executionCount = rule.executionCount + 1, !.lastExecuted = 1]
     ELSE store[i]]

\* 4.4: on success the rule's executionCount is incremented and lastExecuted set,
\* through the store's atomic update of the stored rule
persistExecution(store, rule) ==
  [i \in DOMAIN store |->
     IF store[i].id = rule.id
     THEN [store[i] EXCEPT !.executionCount = @ + 1, !.lastExecuted = 1]
     ELSE store[i]]

\* a faulty variant: the first failure ends the pass
recordOutcomeAborting(f, rule, r) ==
  [f EXCEPT !.queue = IF r.ok THEN Tail(@) ELSE <<>>,
            !.order = Append(@, rule.id),
            !.result = [attempted |-> @.attempted + 1,
                        succeeded |-> @.succeeded + (IF r.ok THEN 1 ELSE 0),
                        failures |-> IF r.ok THEN @.failures
                                     ELSE Append(@.failures,
                                                 [ruleId |-> rule.id, error |-> r.error])]]

\* 4.4: the invocation after one rule was attempted: the aggregate result grows
\* and the next qualifying rule is up, whatever the outcome
recordOutcome(f, rule, r) ==
  [f EXCEPT !.queue = Tail(@),
            !.order = Append(@, rule.id),
            !.result = [attempted |-> @.attempted + 1,
                        succeeded |-> @.succeeded + (IF r.ok THEN 1 ELSE 0),
                        failures |-> IF r.ok THEN @.failures
                                     ELSE Append(@.failures,
                                                 [ruleId |-> rule.id, error |-> r.error])]]

\* 4.4: a new invocation: the qualifying rules are loaded, nothing is attempted yet.
\* origin is the caller (the handler and its req.user, or a producer), events the
\* events the caller fires afterwards, trace the caller's calls so far
runAutomations(origin, event, events, trace) ==
  [pc |-> "fire", origin |-> origin, event |-> event,
   queue |-> qualifying(automations, event),
   order |-> <<>>,
   result |-> [attempted |-> 0, succeeded |-> 0, failures |-> <<>>],
   events |-> events,
   trace |-> Append(trace, event.kind)]

(* ------------------------------------------------------------------ *)
(* Stored documents                                                    *)
(* ------------------------------------------------------------------ *)
Member(user, role) == [user |-> user, role |-> role]
Trigger(type, value) == [type |-> type, value |-> value]
Action(type, param) == [type |-> type, param |-> param]

\* an Automation document; executionCount defaults to 0, lastExecuted is unset (0)
Automation(id, project, trigger, action, creator, active) ==
  [id |-> id, project |-> project, trigger |-> trigger, action |-> action,
   creator |-> creator, active |-> active, executionCount |-> 0, lastExecuted |-> 0]

\* the task document handed to runAutomations
Snapshot(t) ==
  [id |-> t.id, project |-> t.project, status |-> t.status,
   assignee |-> t.assignee, creator |-> t.creator]

\* the rules a stored rule set is drawn from
RuleSpecs ==
  {[project |-> pa[1], active |-> pa[2], trigger |-> ta[1], action |-> ta[2]] :
     pa \in {<<"p1", TRUE>>, <<"p1", FALSE>>, <<"p2", TRUE>>},
     ta \in {<<Trigger("task_status_changed", "Done"), Action("change_status", "Archived")>>,
             <<Trigger("task_status_changed", "Done"), Action("assign_badge", "Mover")>>,
             <<Trigger("task_created", NoValue), Action("assign_user", "u2")>>,
             <<Trigger("task_created", NoValue), Action("send_notification", "ping")>>}}

StoreOf(f) ==
  [i \in DOMAIN f |->
     Automation(i, f[i].project, f[i].trigger, f[i].action, "u1", f[i].active)]

RuleStores == UNION {{StoreOf(f) : f \in [1..n -> RuleSpecs]} : n \in 0..MaxRules}

InitProjects ==
  [p \in ProjectIds |->
     IF p = "p1"
     THEN [owner |-> "u1",
           members |-> <<Member("u1", "owner"), Member("u2", "editor"),
                         Member("u3", "viewer")>>,
           statuses |-> DefaultStatuses]
     ELSE [owner |-> "u2", members |-> <<Member("u2", "owner")>>,
           statuses |-> DefaultStatuses]]

Init ==
  /\ projects = InitProjects
  /\ tasks = <<>>
  /\ automations \in RuleStores
  /\ badges = [u \in Users |-> <<>>]
  /\ notifications = <<>>
  /\ fires = [s \in Slots |-> Idle]
  /\ firings = [r \in RuleIds |-> [n |-> 0, projects |-> {}]]

\* who invoked the engine: a handler serving req.user, or a lifecycle producer
Origin(op, user) == [op |-> op, user |-> user]
Producer == Origin("producer", NoValue)

\* a slot whose request was answered: res.status(code).json(...)
Response(origin, code, trace) ==
  [pc |-> "responded", op |-> origin.op, user |-> origin.user, code |-> code, trace |-> trace]

\* a slot in which a direct call of a function of a controller or schema has returned
Returned(fn, args, result) == [pc |-> "returned", fn |-> fn, args |-> args, result |-> result]

(* ------------------------------------------------------------------ *)
(* Middleware                                                          *)
(* ------------------------------------------------------------------ *)
\* projectAccess: 404 without the project, 403 unless req.user is a member, else next()
projectAccess(req, projectId) ==
  IF projectId \notin DOMAIN projects THEN 404
  ELSE IF ~ \E i \in DOMAIN projects[projectId].members :
              StrictEquals(toString(ObjectId(projects[projectId].members[i].user)),
                           toString(req.id))
       THEN 403
       ELSE 200

\* projectOwner: 404 without the project, 403 unless req.user is its owner, else next()
projectOwner(req, projectId) ==
  IF projectId \notin DOMAIN projects THEN 404
  ELSE IF ~ StrictEquals(toString(ObjectId(projects[projectId].owner)), toString(req.id))
       THEN 403
       ELSE 200

\* the events the lifecycle producers submit: a kind and its context
ProducerEvents ==
  {[kind |-> "task_status_changed", context |-> [oldStatus |-> o, oldAssignee |-> NoValue]] :
     o \in {"To Do", "Done"}}
  \cup {[kind |-> k, context |-> NoContext] : k \in {"task_created"}}

(* ------------------------------------------------------------------ *)
(* The engine's steps                                                  *)
(* ------------------------------------------------------------------ *)
\* a lifecycle producer submits an event for a stored task
fire(s) ==
  /\ fires[s] = Idle
  /\ \E t \in DOMAIN tasks, e \in ProducerEvents :
       /\ \A i \in DOMAIN automations : automations[i].executionCount < MaxExec
       /\ fires' = [fires EXCEPT ![s] =
                      runAutomations(Producer, Event(e.kind, Snapshot(tasks[t]), e.context),
                                     <<>>, <<>>)]
       /\ UNCHANGED <<projects, tasks, automations, badges, notifications, firings>>

\* the Orchestrator attempts the next qualifying rule
executeNext(s) ==
  \E fault \in BOOLEAN :
    /\ fires[s].pc = "fire"
    /\ fires[s].queue # <<>>
    /\ LET f == fires[s]
           rule == Head(f.queue)
           r == execute(rule.action, f.event.task.id, fault)
       IN  /\ tasks' = r.tasks
           /\ badges' = r.badges
           /\ notifications' = r.notifications
           /\ automations' = IF r.ok THEN persistExecution(automations, rule)
                             ELSE automations
           /\ firings' = IF r.ok
                         THEN [firings EXCEPT ![rule.id] =
                                 [n |-> @.n + 1,
                                  projects |-> @.projects \cup {tasks[f.event.task.id].project}]]
                         ELSE firings
           /\ fires' = [fires EXCEPT ![s] = recordOutcome(f, rule, r)]
    /\ UNCHANGED projects

\* the invocation returns its result; a controller that awaited it fires its
\* next event or responds
fireReturn(s) ==
  /\ fires[s].pc = "fire"
  /\ fires[s].queue = <<>>
  /\ LET f == fires[s]
     IN  IF f.origin = Producer
         THEN fires' = [fires EXCEPT ![s] = Idle]
         ELSE IF f.events = <<>>
         THEN fires' = [fires EXCEPT ![s] =
                          Response(f.origin, IF f.origin.op = "createTask" THEN 201 ELSE 200,
                                   f.trace)]
         ELSE \E engineFault \in BOOLEAN :
                fires' = [fires EXCEPT ![s] =
                            IF engineFault
                            THEN Response(f.origin, 500, Append(f.trace, Head(f.events).kind))
                            ELSE runAutomations(f.origin,
                                                Event(Head(f.events).kind, f.event.task,
                                                      Head(f.events).context),
                                                Tail(f.events), f.trace)]
  /\ UNCHANGED <<projects, tasks, automations, badges, notifications, firings>>

\* the response is sent and the request is over (or a direct call has returned)
release(s) ==
  /\ fires[s].pc \in {"responded", "returned"}
  /\ fires' = [fires EXCEPT ![s] = Idle]
  /\ UNCHANGED <<projects, tasks, automations, badges, notifications, firings>>

(* ------------------------------------------------------------------ *)
(* Task controller                                                     *)
(* ------------------------------------------------------------------ *)
\* Task.create: the pre-save hooks check the status against the project's
\* statuses and push the "created" history entry
TaskCreate(projectId, status, assignee, creator) ==
  [id |-> Len(tasks) + 1, project |-> projectId, status |-> status,
   assignee |-> assignee, creator |-> creator,
   history |-> <<HistoryEntry(creator, "created", NoValue, "title")>>]

\* a faulty variant: the engine is invoked while the task's write is still pending
createTaskCallsUnwritten(assignee) == <<>>

\* createTask's calls before it invokes the engine: the task is written, then the
\* assignee notified
createTaskCalls(assignee) ==
  IF assignee # NoValue THEN <<"Task.create", "Notification.create">>
  ELSE <<"Task.create">>

\* POST /api/tasks: protect, validateRequest, projectAccess, createTask
createTask(s) ==
  /\ fires[s] = Idle
  /\ \E u \in Users, projectId \in ProjectRefs, status \in {NoValue, "Done", "Archived"},
        assignee \in {NoValue, "u2"} :
       LET req == protect(u)
           access == projectAccess(req, projectId)
           reject(code) ==
             /\ fires' = [fires EXCEPT ![s] = Response(Origin("createTask", u), code, <<>>)]
             /\ UNCHANGED <<tasks, notifications>>
       IN
       /\ IF access # 200 THEN reject(access)
          ELSE LET project == projects[projectId] IN
            IF status # NoValue /\ ~ hasStatus(project, status) THEN reject(400)
            ELSE IF assignee # NoValue /\ ~ hasMember(project, assignee) THEN reject(400)
            ELSE IF status = NoValue /\ project.statuses = <<>> THEN reject(500)
            ELSE
              LET task == TaskCreate(projectId,
                                     IF status # NoValue THEN status ELSE project.statuses[1],
                                     assignee, req.id.v)
                  trace == createTaskCalls(assignee)
              IN  /\ Len(tasks) < MaxTasks
                  /\ tasks' = Append(tasks, task)
                  /\ notifications' =
                       IF assignee # NoValue
                       THEN Append(notifications,
                                   Notification(assignee, "task_assignment", projectId, task.id))
                       ELSE notifications
                  /\ \E engineFault \in BOOLEAN :
                       fires' = [fires EXCEPT ![s] =
                                   IF engineFault
                                   THEN Response(Origin("createTask", u), 500,
                                                 Append(trace, "task_created"))
                                   ELSE runAutomations(Origin("createTask", u),
                                                       Event("task_created", Snapshot(task),
                                                             NoContext),
                                                       <<>>, trace)]
       /\ UNCHANGED <<projects, automations, badges, firings>>

\* createTask up to its last await before the write: projectAccess and the handler
\* have read the project, and the status and the assignee were checked against the
\* document read; the task is not created yet
createTaskFind(s) ==
  /\ fires[s] = Idle
  /\ \E u \in Users, projectId \in {"p1", "p0"}, status \in {NoValue, "Done"},
        assignee \in {NoValue, "u2"} :
       LET req == protect(u)
           access == projectAccess(req, projectId)
           project == projects[projectId]
           code == IF access # 200 THEN access
                   ELSE IF status # NoValue /\ ~ hasStatus(project, status) THEN 400
                   ELSE IF assignee # NoValue /\ ~ hasMember(project, assignee) THEN 400
                   ELSE IF status = NoValue /\ project.statuses = <<>> THEN 500
                   ELSE 200
       IN
       /\ fires' = [fires EXCEPT ![s] =
                      IF code = 200
                      THEN [pc |-> "Task.create", origin |-> Origin("createTask", u),
                            project |-> projectId,
                            status |-> IF status # NoValue THEN status
                                       ELSE project.statuses[1],
                            assignee |-> assignee]
                      ELSE Response(Origin("createTask", u), code, <<>>)]
       /\ UNCHANGED <<projects, tasks, automations, badges, notifications, firings>>

\* createTask from Task.create on: the pre-save hook reads the project again and
\* checks the status (an Error, answered 500, when it is no status of the project),
\* the task is written, the assignee notified and the engine invoked
createTaskCreate(s) ==
  /\ fires[s].pc = "Task.create"
  /\ LET f == fires[s]
         task == TaskCreate(f.project, f.status, f.assignee, f.origin.user)
         trace == createTaskCalls(f.assignee)
     IN  IF f.project \notin DOMAIN projects \/ ~ hasStatus(projects[f.project], f.status)
         THEN /\ fires' = [fires EXCEPT ![s] = Response(f.origin, 500, <<>>)]
              /\ UNCHANGED <<tasks, notifications>>
         ELSE /\ Len(tasks) < MaxTasks
              /\ tasks' = Append(tasks, task)
              /\ notifications' =
                   IF f.assignee # NoValue
                   THEN Append(notifications,
                               Notification(f.assignee, "task_assignment", f.project, task.id))
                   ELSE notifications
              /\ \E engineFault \in BOOLEAN :
                   fires' = [fires EXCEPT ![s] =
                               IF engineFault
                               THEN Response(f.origin, 500, Append(trace, "task_created"))
                               ELSE runAutomations(f.origin,
                                                   Event("task_created", Snapshot(task),
                                                         NoContext),
                                                   <<>>, trace)]
  /\ UNCHANGED <<projects, automations, badges, firings>>

\* task.save(): the "updated" entry the handler pushed, then the pre-save hooks:
\* a status_changed entry when the status was modified and an assigned entry when
\* the assignee was; this._oldStatus and this._oldAssignee are never set on a
\* document, so both entries carry no old value
TaskSave(task, status, assignee, user) ==
  LET newStatus == IF status # NoValue THEN status ELSE task.status
      newAssignee == IF assignee = NoValue THEN task.assignee
                     ELSE IF assignee = "unassign" THEN NoValue
                     ELSE assignee
      statusEntry == IF newStatus # task.status
                     THEN <<HistoryEntry(NoValue, "status_changed", NoValue, newStatus)>>
                     ELSE <<>>
      assignEntry == IF newAssignee # task.assignee
                     THEN <<HistoryEntry(NoValue, "assigned", NoValue, newAssignee)>>
                     ELSE <<>>
  IN  [task EXCEPT !.status = newStatus,
                   !.assignee = newAssignee,
                   !.history = Append(@, HistoryEntry(user, "updated", NoValue, NoValue))
                                 \o statusEntry \o assignEntry]

\* the new assignee is notified: assignee && assignee !== "unassign" &&
\* (!oldAssignee || oldAssignee.toString() !== assignee)
newAssignment(assignee, oldAssignee) ==
  /\ assignee # NoValue
  /\ assignee # "unassign"
  /\ (oldAssignee = NoValue \/ oldAssignee # assignee)

\* the events updateTask fires after the save, in the order of its calls
updateTaskEvents(status, assignee, oldStatus, oldAssignee) ==
  (IF status # NoValue /\ status # oldStatus
   THEN <<[kind |-> "task_status_changed",
           context |-> [oldStatus |-> oldStatus, oldAssignee |-> NoValue]]>>
   ELSE <<>>)
  \o (IF newAssignment(assignee, oldAssignee)
         \/ (assignee = "unassign" /\ oldAssignee # NoValue)
      THEN <<[kind |-> "task_assigned",
              context |-> [oldStatus |-> NoValue, oldAssignee |-> oldAssignee]]>>
      ELSE <<>>)
  \o <<[kind |-> "task_updated", context |-> NoContext]>>

\* updateTask's calls before it invokes the engine: the task is saved, then a new
\* assignee notified
updateTaskCalls(notify) ==
  IF notify THEN <<"task.save", "Notification.create">>
  ELSE <<"task.save">>

\* PUT /api/tasks/:taskId: protect, validateRequest, updateTask
updateTask(s) ==
  /\ fires[s] = Idle
  /\ \E u \in Users, taskId \in 1..(MaxTasks + 1), status \in {NoValue, "Done"},
        assignee \in {NoValue, "u2", "unassign"} :
       LET req == protect(u)
           reject(code) ==
             /\ fires' = [fires EXCEPT ![s] = Response(Origin("updateTask", u), code, <<>>)]
             /\ UNCHANGED <<tasks, notifications>>
       IN
       /\ IF taskId \notin DOMAIN tasks THEN reject(404)
          ELSE LET task == tasks[taskId]
                   project == projects[task.project]
                   isMember == \E i \in DOMAIN project.members :
                                 sameUser(project.members[i].user, req)
                   oldStatus == task.status
                   oldAssignee == task.assignee
               IN
            IF ~ isMember THEN reject(403)
            ELSE IF status # NoValue /\ ~ hasStatus(project, status) THEN reject(400)
            ELSE IF assignee \notin {NoValue, "unassign"} /\ ~ hasMember(project, assignee)
                 THEN reject(400)
            ELSE
              LET saved == TaskSave(task, status, assignee, req.id.v)
                  notify == newAssignment(assignee, oldAssignee)
                  trace == updateTaskCalls(notify)
                  events == updateTaskEvents(status, assignee, oldStatus, oldAssignee)
              IN  /\ tasks' = [tasks EXCEPT ![taskId] = saved]
                  /\ notifications' =
                       IF notify
                       THEN Append(notifications,
                                   Notification(assignee, "task_assignment", task.project, taskId))
                       ELSE notifications
                  /\ \E engineFault \in BOOLEAN :
                       fires' = [fires EXCEPT ![s] =
                                   IF engineFault
                                   THEN Response(Origin("updateTask", u), 500,
                                                 Append(trace, Head(events).kind))
                                   ELSE runAutomations(Origin("updateTask", u),
                                                       Event(Head(events).kind, Snapshot(saved),
                                                             Head(events).context),
                                                       Tail(events), trace)]
       /\ UNCHANGED <<projects, automations, badges, firings>>

\* updateTask's assignments and task.save() are applied to a stored task, with a
\* status of the task's project and a member of it (or "unassign")
callTaskSave(s) ==
  /\ fires[s] = Idle
  /\ \E t \in DOMAIN tasks, u \in Users, status \in {NoValue, "Done", "In Progress"},
        assignee \in {NoValue, "u2", "unassign"} :
       LET project == projects[tasks[t].project] IN
       /\ status # NoValue => hasStatus(project, status)
       /\ assignee \notin {NoValue, "unassign"} => hasMember(project, assignee)
       /\ fires' = [fires EXCEPT ![s] =
                      Returned("task.save", [task |-> tasks[t], user |-> u],
                               TaskSave(tasks[t], status, assignee, u))]
       /\ UNCHANGED <<projects, tasks, automations, badges, notifications, firings>>

\* POST /api/tasks/:taskId/comments: protect, validateRequest, addTaskComment.
\* The comment itself is not part of the model; its history entry is.
addTaskComment(s) ==
  /\ fires[s] = Idle
  /\ \E u \in Users, taskId \in 1..(MaxTasks + 1), text \in {"", "hi"} :
       LET req == protect(u)
           found == taskId \in DOMAIN tasks
           task == tasks[taskId]
           project == projects[task.project]
           isMember == \E i \in DOMAIN project.members :
                         sameUser(project.members[i].user, req)
           notify == task.assignee # NoValue
                       /\ ~ sameUser(task.assignee, req)
           code == IF text = "" THEN 400
                   ELSE IF ~ found THEN 404
                   ELSE IF ~ isMember THEN 403
                   ELSE 200
       IN
       /\ tasks' = IF code = 200
                   THEN [tasks EXCEPT ![taskId].history =
                           push(@, HistoryEntry(req.id.v, "commented", NoValue, NoValue))]
                   ELSE tasks
       /\ notifications' =
            IF code = 200 /\ notify
            THEN Append(notifications,
                        Notification(task.assignee, "task_comment", task.project, taskId))
            ELSE notifications
       /\ fires' = [fires EXCEPT ![s] = Response(Origin("addTaskComment", u), code, <<>>)]
       /\ UNCHANGED <<projects, automations, badges, firings>>

(* ------------------------------------------------------------------ *)
(* Project controller                                                  *)
(* ------------------------------------------------------------------ *)
\* a faulty variant: a status named by a rule of the project counts as in use too
statusInUseByRules(projectId, statuses) ==
  \/ \E t \in DOMAIN tasks :
       /\ tasks[t].project = projectId
       /\ tasks[t].status \notin Range(statuses)
  \/ \E i \in DOMAIN automations :
       /\ automations[i].project = projectId
       /\ automations[i].trigger.type = "task_status_changed"
       /\ automations[i].trigger.value \notin Range(statuses)

\* a faulty variant: the tasks of the project are not looked at
statusInUseNever(projectId, statuses) == FALSE

\* updateProject: some task of the project has a status the new list lacks
statusInUse(projectId, statuses) ==
  \E t \in DOMAIN tasks :
    /\ tasks[t].project = projectId
    /\ tasks[t].status \notin Range(statuses)

\* a faulty variant: any list of statuses is accepted
statusesValidAlways(arr) == TRUE

\* projectSchema.statuses.validate: (arr) => arr.length >= 1
statusesValid(arr) == Len(arr) >= 1

\* projectSchema.pre("save"): the owner is pushed to the members unless listed there
ProjectSave(project) ==
  IF \E i \in DOMAIN project.members :
       StrictEquals(toString(ObjectId(project.members[i].user)),
                    toString(ObjectId(project.owner)))
  THEN project
  ELSE [project EXCEPT !.members = Append(@, Member(project.owner, "owner"))]

\* PUT /api/projects/:projectId: protect, projectOwner, validateRequest, updateProject
updateProject(s) ==
  /\ fires[s] = Idle
  /\ \E u \in Users, projectId \in {"p1", "p0"}, statuses \in StatusLists :
       LET req == protect(u)
           access == projectOwner(req, projectId)
           inUse == statusInUse(projectId, statuses)
           code == IF access # 200 THEN access
                   ELSE IF inUse THEN 400
                   ELSE IF ~ statusesValid(statuses) THEN 500
                   ELSE 200
       IN
       /\ projects' = IF code = 200
                      THEN [projects EXCEPT ![projectId] =
                              ProjectSave([@ EXCEPT !.statuses = statuses])]
                      ELSE projects
       /\ fires' = [fires EXCEPT ![s] = Response(Origin("updateProject", u), code, <<>>)]
       /\ UNCHANGED <<tasks, automations, badges, notifications, firings>>

\* updateProject up to its last await before the write: projectOwner has read the
\* project and Task.find has looked for tasks whose status the new list lacks; the
\* new statuses are assigned to the document, which is not saved yet
updateProjectFind(s) ==
  /\ fires[s] = Idle
  /\ \E u \in Users, projectId \in {"p1", "p0"}, statuses \in StatusLists :
       LET req == protect(u)
           access == projectOwner(req, projectId)
           code == IF access # 200 THEN access
                   ELSE IF statusInUse(projectId, statuses) THEN 400
                   ELSE 200
       IN
       /\ fires' = [fires EXCEPT ![s] =
                      IF code = 200
                      THEN [pc |-> "updateProject.save", origin |-> Origin("updateProject", u),
                            project |-> projectId, statuses |-> statuses]
                      ELSE Response(Origin("updateProject", u), code, <<>>)]
       /\ UNCHANGED <<projects, tasks, automations, badges, notifications, firings>>

\* updateProject from project.save() on: the statuses are validated and written,
\* and the request is answered
updateProjectSave(s) ==
  /\ fires[s].pc = "updateProject.save"
  /\ LET f == fires[s]
         code == IF ~ statusesValid(f.statuses) THEN 500 ELSE 200
     IN  /\ projects' = IF code = 200
                        THEN [projects EXCEPT ![f.project] =
                                ProjectSave([@ EXCEPT !.statuses = f.statuses])]
                        ELSE projects
         /\ fires' = [fires EXCEPT ![s] = Response(f.origin, code, <<"Task.find">>)]
  /\ UNCHANGED <<tasks, automations, badges, notifications, firings>>

\* the projects a request may name: the stored ones and one that is not stored
ProjectParams == DOMAIN projects \cup {"p0"}
\* the projects whose members the requests of the model administer
MemberParams == (DOMAIN projects \ {"p2"}) \cup {"p0"}

\* POST /api/projects: protect, validateRequest, createProject. A body without
\* statuses (<<>>) leaves them to the schema's default; an empty list is truthy
\* and is handed to Project.create as it is.
createProject(s) ==
  /\ fires[s] = Idle
  /\ \E u \in Users, statuses \in {<<>>} \cup {<<l>> : l \in StatusLists} :
       LET req == protect(u)
           project == [owner |-> req.id.v, members |-> <<>>,
                       statuses |-> IF statuses = <<>> THEN DefaultStatuses
                                    ELSE statuses[1]]
           code == IF ~ statusesValid(project.statuses) THEN 500 ELSE 201
           id == ProjectNames[Cardinality(DOMAIN projects) + 1]
       IN
       /\ code = 201 => Cardinality(DOMAIN projects) < MaxProjects
       /\ projects' = IF code = 201 THEN projects @@ (id :> ProjectSave(project))
                      ELSE projects
       /\ fires' = [fires EXCEPT ![s] = Response(Origin("createProject", u), code, <<>>)]
       /\ UNCHANGED <<tasks, automations, badges, notifications, firings>>

\* the roles a body may carry: none, the two the route admits, and one it does not
BodyRoles == {NoValue, "editor", "viewer", "owner"}

\* the notifications that invite a user to a project
Invitations == SelectSeq(notifications, LAMBDA n : n.type = "project_invitation")

\* POST /api/projects/:projectId/members: protect, projectOwner, validateRequest,
\* addProjectMember. The user is named by an e-mail address, here by the user it
\* belongs to; "nobody" is the address of no user.
addProjectMember(s) ==
  /\ fires[s] = Idle
  /\ \E u \in Users, projectId \in MemberParams, email \in Users \cup {"nobody"},
        role \in BodyRoles :
       LET req == protect(u)
           access == projectOwner(req, projectId)
           project == projects[projectId]
           isAlreadyMember ==
             \E i \in DOMAIN project.members :
               StrictEquals(toString(ObjectId(project.members[i].user)),
                            toString(ObjectId(email)))
           code == IF access # 200 THEN access
                   ELSE IF role \notin {NoValue, "editor", "viewer"} THEN 400
                   ELSE IF email \notin Users THEN 404
                   ELSE IF isAlreadyMember THEN 400
                   ELSE 200
           added == [project EXCEPT !.members =
                       Append(@, Member(email, IF role # NoValue THEN role ELSE "editor"))]
       IN
       /\ code = 200 => Len(Invitations) < MaxInvitations
       /\ projects' = IF code = 200 THEN [projects EXCEPT ![projectId] = ProjectSave(added)]
                      ELSE projects
       /\ notifications' =
            IF code = 200
            THEN Append(notifications,
                        Notification(email, "project_invitation", projectId, NoValue))
            ELSE notifications
       /\ fires' = [fires EXCEPT ![s] = Response(Origin("addProjectMember", u), code, <<>>)]
       /\ UNCHANGED <<tasks, automations, badges, firings>>

\* a faulty variant: no user is taken for the owner
isOwnerIdNever(project, userId) == FALSE

\* project.owner.toString() === userId, userId being a route parameter (a string)
isOwnerId(project, userId) ==
  StrictEquals(toString(ObjectId(project.owner)), String(userId))

\* project.members.findIndex((member) => member.user.toString() === userId): the
\* indices of the members found (none for -1)
findIndex(project, userId) ==
  {i \in DOMAIN project.members :
     StrictEquals(toString(ObjectId(project.members[i].user)), String(userId))}

\* project.members.splice(memberIndex, 1)
splice(members, memberIndex) ==
  [i \in 1..(Len(members) - 1) |-> IF i < memberIndex THEN members[i] ELSE members[i + 1]]

\* DELETE /api/projects/:projectId/members/:userId: protect, projectOwner,
\* removeProjectMember, up to project.save(): the member is removed; the tasks are
\* unassigned afterwards, in a transaction of its own
removeProjectMember(s) ==
  /\ fires[s] = Idle
  /\ \E u \in Users, projectId \in MemberParams, userId \in Users :
       LET req == protect(u)
           access == projectOwner(req, projectId)
           project == projects[projectId]
           found == findIndex(project, userId)
           memberIndex == CHOOSE i \in found : \A j \in found : i <= j
           code == IF access # 200 THEN access
                   ELSE IF isOwnerId(project, userId) THEN 400
                   ELSE IF found = {} THEN 404
                   ELSE 200
       IN
       /\ projects' = IF code = 200
                      THEN [projects EXCEPT ![projectId] =
                              ProjectSave([project EXCEPT !.members =
                                             splice(@, memberIndex)])]
                      ELSE projects
       /\ fires' = [fires EXCEPT ![s] =
                      IF code = 200
                      THEN [pc |-> "unassign", origin |-> Origin("removeProjectMember", u),
                            project |-> projectId, userId |-> userId]
                      ELSE Response(Origin("removeProjectMember", u), code, <<>>)]
       /\ UNCHANGED <<tasks, automations, badges, notifications, firings>>

\* Task.updateMany({project, assignee: userId}, {$set: {assignee: null}})
updateManyUnassign(store, projectId, userId) ==
  [t \in DOMAIN store |->
     IF store[t].project = projectId /\ store[t].assignee = userId
     THEN [store[t] EXCEPT !.assignee = NoValue]
     ELSE store[t]]

\* removeProjectMember, from the transaction on: the tasks of the project assigned
\* to the removed user are unassigned and the request is answered; when the
\* transaction fails it is aborted and the error handler answers 500
unassignTasks(s) ==
  /\ fires[s].pc = "unassign"
  /\ \E fault \in BOOLEAN :
       /\ tasks' = IF fault THEN tasks
                   ELSE updateManyUnassign(tasks, fires[s].project, fires[s].userId)
       /\ fires' = [fires EXCEPT ![s] =
                      Response(fires[s].origin, IF fault THEN 500 ELSE 200,
                               <<"project.save">>)]
  /\ UNCHANGED <<projects, automations, badges, notifications, firings>>

\* PUT /api/projects/:projectId/members/:userId: protect, projectOwner,
\* validateRequest, updateMemberRole
updateMemberRole(s) ==
  /\ fires[s] = Idle
  /\ \E u \in Users, projectId \in MemberParams, userId \in Users, role \in BodyRoles :
       LET req == protect(u)
           access == projectOwner(req, projectId)
           project == projects[projectId]
           found == findIndex(project, userId)
           memberIndex == CHOOSE i \in found : \A j \in found : i <= j
           code == IF access # 200 THEN access
                   ELSE IF role \notin {"editor", "viewer"} THEN 400
                   ELSE IF isOwnerId(project, userId) THEN 400
                   ELSE IF found = {} THEN 404
                   ELSE 200
       IN
       /\ projects' = IF code = 200
                      THEN [projects EXCEPT ![projectId] =
                              ProjectSave([project EXCEPT !.members[memberIndex].role = role])]
                      ELSE projects
       /\ fires' = [fires EXCEPT ![s] = Response(Origin("updateMemberRole", u), code, <<>>)]
       /\ UNCHANGED <<tasks, automations, badges, notifications, firings>>

\* the store's collections that deleteProject writes
Collections ==
  [projects |-> projects, tasks |-> tasks, automations |-> automations,
   notifications |-> notifications]

\* the writes of deleteProject's transaction, in the order of its calls, and its commit
DeleteSteps ==
  <<"Task.deleteMany", "Automation.deleteMany", "Notification.deleteMany",
    "Project.findByIdAndDelete", "commitTransaction">>

\* one write of the transaction applied to the collections c
deleteStep(c, step, projectId) ==
  CASE step = "Task.deleteMany" ->
         [c EXCEPT !.tasks = SelectSeq(@, LAMBDA t : t.project # projectId)]
    [] step = "Automation.deleteMany" ->
         [c EXCEPT !.automations = SelectSeq(@, LAMBDA a : a.project # projectId)]
    [] step = "Notification.deleteMany" ->
         [c EXCEPT !.notifications = SelectSeq(@, LAMBDA n : n.relatedProject # projectId)]
    [] step = "Project.findByIdAndDelete" ->
         [c EXCEPT !.projects = [p \in DOMAIN @ \ {projectId} |-> @[p]]]
    [] OTHER -> c

\* the collections after the first n steps of the transaction
RECURSIVE deleteSteps(_, _, _)
deleteSteps(c, n, projectId) ==
  IF n = 0 THEN c
  ELSE deleteStep(deleteSteps(c, n - 1, projectId), DeleteSteps[n], projectId)

\* a faulty variant: the writes are made outside a transaction
withoutSession(before, written, failed) == written

\* the writes are made in a session's transaction: session.commitTransaction()
\* stores them all, session.abortTransaction() none
withSession(before, written, failed) == IF failed THEN before ELSE written

\* DELETE /api/projects/:projectId: protect, projectOwner, deleteProject. failAt is
\* the step of the transaction that throws (0: none)
deleteProject(s) ==
  /\ fires[s] = Idle
  /\ \E u \in Users, projectId \in ProjectParams, failAt \in 0..Len(DeleteSteps) :
       LET req == protect(u)
           access == projectOwner(req, projectId)
           failed == failAt # 0
           code == IF access # 200 THEN access
                   ELSE IF failed THEN 500
                   ELSE 200
           written == deleteSteps(Collections,
                                  IF failed THEN failAt - 1 ELSE Len(DeleteSteps), projectId)
           stored == IF access # 200 THEN Collections
                     ELSE withSession(Collections, written, failed)
       IN
       /\ projects' = stored.projects
       /\ tasks' = stored.tasks
       /\ automations' = stored.automations
       /\ notifications' = stored.notifications
       /\ fires' = [fires EXCEPT ![s] = Response(Origin("deleteProject", u), code, <<>>)]
       /\ UNCHANGED <<badges, firings>>

(* ------------------------------------------------------------------ *)
(* Automation controller                                               *)
(* ------------------------------------------------------------------ *)
\* a request-body value that is not a string (a number)
NotAString == "#7"
\* typeof v === "string"
isString(v) == v # NoValue /\ v # NotAString
\* a value that is truthy: neither undefined nor the empty string
truthy(v) == v # NoValue /\ v # ""
\* mongoose.Types.ObjectId.isValid(v), for the strings of the model: the user ids
isValidObjectId(v) == v \in Users

\* a trigger or an action the body does not carry
NoTrigger == Trigger(NoValue, NoValue)
NoAction == Action(NoValue, NoValue)

\* the triggers and actions a request body may carry
BodyTriggers ==
  {Trigger("task_status_changed", v) : v \in {NoValue, "", "Done", "Archived", NotAString}}
  \cup {Trigger("task_assigned", v) : v \in {NoValue, "u2", "ping"}}
  \cup {Trigger("task_created", NoValue)}
BodyActions ==
  {Action("change_status", v) : v \in {NoValue, "", "Done", "Archived", NotAString}}
  \cup {Action("assign_badge", v) : v \in {NoValue, "Mover", NotAString}}
  \cup {Action("assign_user", v) : v \in {NoValue, "u2", "ping"}}
  \cup {Action("send_notification", v) : v \in {"", "ping"}}

\* a faulty variant: the statuses are read from the stored project p1, whatever
\* project is passed
validateAutomationLogicStored(trigger, action, project) ==
  /\ (trigger.type = "task_status_changed" /\ truthy(trigger.value)) =>
       hasStatus(projects["p1"], trigger.value)
  /\ (action.type = "change_status" /\ truthy(action.param)) =>
       hasStatus(projects["p1"], action.param)

\* a faulty variant: only the trigger's status is checked
validateAutomationLogicTriggerOnly(trigger, action, project) ==
  (trigger.type = "task_status_changed" /\ truthy(trigger.value)) =>
    hasStatus(project, trigger.value)

\* validateAutomationLogic: TRUE when it returns, FALSE when it throws
validateAutomationLogic(trigger, action, project) ==
  /\ (trigger.type = "task_status_changed" /\ truthy(trigger.value)) =>
       hasStatus(project, trigger.value)
  /\ (action.type = "change_status" /\ truthy(action.param)) =>
       hasStatus(project, action.param)

\* automationSchema.path("trigger").validate
triggerValid(trigger) ==
  CASE trigger.type = "task_status_changed" -> truthy(trigger.value) /\ isString(trigger.value)
    [] trigger.type = "task_assigned" ->
         truthy(trigger.value) /\ isValidObjectId(trigger.value)
    [] OTHER -> TRUE

\* a faulty variant: a parameter passes when it is present, whatever its type
actionValidPresent(action) ==
  CASE action.type \in {"assign_badge", "change_status", "send_notification"} ->
         truthy(action.param)
    [] action.type = "assign_user" -> truthy(action.param)
    [] OTHER -> TRUE

\* automationSchema.path("action").validate
actionValid(action) ==
  CASE action.type \in {"assign_badge", "change_status", "send_notification"} ->
         truthy(action.param) /\ isString(action.param)
    [] action.type = "assign_user" -> truthy(action.param) /\ isValidObjectId(action.param)
    [] OTHER -> TRUE

\* Automation.create({project, name, trigger, action, creator}): the other fields
\* take the schema's defaults
AutomationCreate(id, body, creator) ==
  Automation(id, body.project, body.trigger, body.action, creator, TRUE)

\* a faulty variant: every field of the body is assigned to the document
updatedAutomationAssign(automation, body) ==
  [automation EXCEPT
     !.trigger = IF body.trigger # NoTrigger THEN body.trigger ELSE @,
     !.action = IF body.action # NoAction THEN body.action ELSE @,
     !.active = IF body.active # <<>> THEN body.active[1] ELSE @,
     !.executionCount = IF body.executionCount # <<>> THEN body.executionCount[1] ELSE @]

\* updateAutomation's assignments: trigger, action and active, each if provided
updatedAutomation(automation, body) ==
  [automation EXCEPT
     !.trigger = IF body.trigger # NoTrigger THEN body.trigger ELSE @,
     !.action = IF body.action # NoAction THEN body.action ELSE @,
     !.active = IF body.active # <<>> THEN body.active[1] ELSE @]

\* updateAutomation's validations of the body: a supplied trigger is validated with
\* the action the rule has at that point, then a supplied action with the trigger
\* the rule has by then; TRUE when neither call throws
updateValidates(automation, body, project) ==
  /\ body.trigger # NoTrigger =>
       validateAutomationLogic(body.trigger, automation.action, project)
  /\ body.action # NoAction =>
       validateAutomationLogic(updatedAutomation(automation, body).trigger, body.action,
                               project)

\* toggleAutomation's assignment: automation.active = !automation.active
toggled(automation) == [automation EXCEPT !.active = ~ @]

\* a faulty variant: the document is saved before the request is checked
saveAutomationEarly(store, code, id, doc) ==
  IF id \in DOMAIN store THEN [store EXCEPT ![id] = doc] ELSE store

\* automation.save(), the handler's last call before it responds: reached only when
\* nothing was thrown before
saveAutomation(store, code, id, doc) ==
  IF code = 200 THEN [store EXCEPT ![id] = doc] ELSE store

\* the store after two toggleAutomation requests for rule id have read the rule,
\* flipped active on the document they read and saved it; when the requests
\* overlap, both have read the rule before either saves
toggledTwice(store, id, overlap) ==
  LET first == store[id]
      afterFirst == saveAutomation(store, 200, id, toggled(first))
      second == IF overlap THEN store[id] ELSE afterFirst[id]
  IN  saveAutomation(afterFirst, 200, id, toggled(second))

\* PUT /api/automations/:automationId/toggle: protect, validateRequest, toggleAutomation
toggleAutomation(s) ==
  /\ fires[s] = Idle
  /\ \E u \in Users, automationId \in 1..(MaxRules + 1) :
       LET req == protect(u)
           found == automationId \in DOMAIN automations
           automation == automations[automationId]
           project == projects[automation.project]
           memberInfo == {i \in DOMAIN project.members :
                            sameUser(project.members[i].user, req)}
           isOwner == sameUser(project.owner, req)
           isCreator == sameUser(automation.creator, req)
           isEditor == \E i \in memberInfo : project.members[i].role = "editor"
           code == IF ~ found THEN 404
                   ELSE IF memberInfo = {} THEN 403
                   ELSE IF ~ isOwner /\ ~ isCreator /\ ~ isEditor THEN 403
                   ELSE 200
       IN
       /\ automations' = saveAutomation(automations, code, automationId, toggled(automation))
       /\ fires' = [fires EXCEPT ![s] = Response(Origin("toggleAutomation", u), code, <<>>)]
       /\ UNCHANGED <<projects, tasks, badges, notifications, firings>>

\* the request bodies of createAutomation and updateAutomation
CreateBodies ==
  [project : ProjectRefs, trigger : BodyTriggers, action : BodyActions,
   executionCount : {<<>>, <<1>>}]
UpdateBodies ==
  [trigger : BodyTriggers \cup {NoTrigger}, action : BodyActions \cup {NoAction},
   active : {<<>>, <<TRUE>>, <<FALSE>>}, executionCount : {<<>>, <<1>>}]

\* POST /api/automations: protect, validateRequest, projectAccess, createAutomation.
\* Reading memberInfo.role throws a TypeError when no member was found.
createAutomation(s) ==
  /\ fires[s] = Idle
  /\ \E u \in Users, body \in CreateBodies :
       LET req == protect(u)
           access == projectAccess(req, body.project)
           project == projects[body.project]
           memberInfo == {i \in DOMAIN project.members :
                            sameUser(project.members[i].user, req)}
           isOwner == sameUser(project.owner, req)
           isEditor == \E i \in memberInfo : project.members[i].role = "editor"
           code == IF access # 200 THEN access
                   ELSE IF memberInfo = {} THEN 500
                   ELSE IF ~ isOwner /\ ~ isEditor THEN 403
                   ELSE IF ~ validateAutomationLogic(body.trigger, body.action, project) THEN 500
                   ELSE IF ~ (triggerValid(body.trigger) /\ actionValid(body.action)) THEN 500
                   ELSE 201
       IN
       /\ code = 201 => Len(automations) < MaxRules
       /\ automations' = IF code = 201
                         THEN Append(automations,
                                     AutomationCreate(Len(automations) + 1, body, req.id.v))
                         ELSE automations
       /\ fires' = [fires EXCEPT ![s] = Response(Origin("createAutomation", u), code, <<>>)]
       /\ UNCHANGED <<projects, tasks, badges, notifications, firings>>

\* PUT /api/automations/:automationId: protect, validateRequest, updateAutomation.
\* automation.save() runs the schema validators of the paths that were modified.
updateAutomation(s) ==
  /\ fires[s] = Idle
  /\ \E u \in Users, automationId \in 1..(MaxRules + 1), body \in UpdateBodies :
       LET req == protect(u)
           found == automationId \in DOMAIN automations
           automation == automations[automationId]
           project == projects[automation.project]
           memberInfo == {i \in DOMAIN project.members :
                            sameUser(project.members[i].user, req)}
           isOwner == sameUser(project.owner, req)
           isCreator == sameUser(automation.creator, req)
           isEditor == \E i \in memberInfo : project.members[i].role = "editor"
           updated == updatedAutomation(automation, body)
           code == IF ~ found THEN 404
                   ELSE IF memberInfo = {} THEN 403
                   ELSE IF ~ isOwner /\ ~ isCreator /\ ~ isEditor THEN 403
                   ELSE IF ~ updateValidates(automation, body, project) THEN 500
                   ELSE IF \/ body.trigger # NoTrigger /\ ~ triggerValid(updated.trigger)
                           \/ body.action # NoAction /\ ~ actionValid(updated.action)
                        THEN 500
                   ELSE 200
       IN
       /\ automations' = saveAutomation(automations, code, automationId, updated)
       /\ fires' = [fires EXCEPT ![s] = Response(Origin("updateAutomation", u), code, <<>>)]
       /\ UNCHANGED <<projects, tasks, badges, notifications, firings>>

\* automation.deleteOne(): the rule leaves the store, the others keep their order
deleteOne(store, id) ==
  [i \in 1..(Len(store) - 1) |-> IF i < id THEN store[i] ELSE store[i + 1]]

\* DELETE /api/automations/:automationId: protect, deleteAutomation
deleteAutomation(s) ==
  /\ fires[s] = Idle
  /\ \E u \in Users, automationId \in 1..(MaxRules + 1) :
       LET req == protect(u)
           found == automationId \in DOMAIN automations
           automation == automations[automationId]
           project == projects[automation.project]
           memberInfo == {i \in DOMAIN project.members :
                            sameUser(project.members[i].user, req)}
           isOwner == sameUser(project.owner, req)
           isCreator == sameUser(automation.creator, req)
           isEditor == \E i \in memberInfo : project.members[i].role = "editor"
           code == IF ~ found THEN 404
                   ELSE IF memberInfo = {} THEN 403
                   ELSE IF ~ isOwner /\ ~ isCreator /\ ~ isEditor THEN 403
                   ELSE 200
       IN
       /\ automations' = IF code = 200 THEN deleteOne(automations, automationId)
                         ELSE automations
       /\ fires' = [fires EXCEPT ![s] = Response(Origin("deleteAutomation", u), code, <<>>)]
       /\ UNCHANGED <<projects, tasks, badges, notifications, firings>>

\* validateAutomationLogic(trigger, action, project) is called
callValidateAutomationLogic(s) ==
  /\ fires[s] = Idle
  /\ \E trigger \in BodyTriggers, action \in BodyActions, p \in ProjectIds :
       /\ fires' = [fires EXCEPT ![s] =
                      Returned("validateAutomationLogic",
                               [trigger |-> trigger, action |-> action,
                                statuses |-> projects[p].statuses],
                               validateAutomationLogic(trigger, action, projects[p]))]
       /\ UNCHANGED <<projects, tasks, automations, badges, notifications, firings>>

\* a document with this trigger and action is validated against the schema
callValidate(s) ==
  /\ fires[s] = Idle
  /\ \E trigger \in BodyTriggers, action \in BodyActions :
       /\ fires' = [fires EXCEPT ![s] =
                      Returned("validate", [trigger |-> trigger, action |-> action],
                               triggerValid(trigger) /\ actionValid(action))]
       /\ UNCHANGED <<projects, tasks, automations, badges, notifications, firings>>

\* a stored rule as it is after any number of firings
Fired(automation, n) == [automation EXCEPT !.executionCount = n, !.lastExecuted = n]

\* the documents createAutomation, updateAutomation and toggleAutomation would save
callAutomationCreate(s) ==
  /\ fires[s] = Idle
  /\ \E u \in Users, body \in CreateBodies :
       /\ fires' = [fires EXCEPT ![s] =
                      Returned("Automation.create", body,
                               AutomationCreate(Len(automations) + 1, body, u))]
       /\ UNCHANGED <<projects, tasks, automations, badges, notifications, firings>>

callUpdatedAutomation(s) ==
  /\ fires[s] = Idle
  /\ \E i \in DOMAIN automations, n \in 0..MaxExec, body \in UpdateBodies :
       /\ fires' = [fires EXCEPT ![s] =
                      Returned("updateAutomation", Fired(automations[i], n),
                               updatedAutomation(Fired(automations[i], n), body))]
       /\ UNCHANGED <<projects, tasks, automations, badges, notifications, firings>>

\* updateAutomation's validations are applied to a stored rule and a body that
\* carries a trigger, an action or both
callUpdateValidates(s) ==
  /\ fires[s] = Idle
  /\ \E i \in DOMAIN automations,
        body \in {b \in UpdateBodies : b.active = <<>> /\ b.executionCount = <<>>} :
       LET project == projects[automations[i].project] IN
       /\ fires' = [fires EXCEPT ![s] =
                      Returned("updateAutomation.validate",
                               [automation |-> automations[i], body |-> body,
                                statuses |-> project.statuses],
                               updateValidates(automations[i], body, project))]
       /\ UNCHANGED <<projects, tasks, automations, badges, notifications, firings>>

callToggled(s) ==
  /\ fires[s] = Idle
  /\ \E i \in DOMAIN automations, n \in 0..MaxExec :
       /\ fires' = [fires EXCEPT ![s] =
                      Returned("toggleAutomation", Fired(automations[i], n),
                               toggled(Fired(automations[i], n)))]
       /\ UNCHANGED <<projects, tasks, automations, badges, notifications, firings>>

\* the reads and saves of two toggleAutomation requests are applied to a stored rule
callToggledTwice(s) ==
  /\ fires[s] = Idle
  /\ \E i \in DOMAIN automations, overlap \in BOOLEAN :
       /\ fires' = [fires EXCEPT ![s] =
                      Returned("toggleAutomation.twice",
                               [automation |-> automations[i], overlap |-> overlap],
                               toggledTwice(automations, i, overlap)[i])]
       /\ UNCHANGED <<projects, tasks, automations, badges, notifications, firings>>

Next ==
  \/ createTask(1)
  \/ updateTask(1)
  \/ addTaskComment(1)
  \/ toggleAutomation(1)
  \/ updateProject(1)
  \/ fire(1)
  \/ executeNext(1)
  \/ fireReturn(1)
  \/ release(1)

Spec == Init /\ [][Next]_vars

\* Overlapping invocations: every slot serves requests and producers, over the
\* stores whose rules are all active rules of project p1
InitOverlap ==
  /\ Init
  /\ \A i \in DOMAIN automations :
       automations[i].active /\ automations[i].project = "p1"

NextOverlap ==
  \E s \in Slots :
    \/ createTask(s)
    \/ fire(s)
    \/ executeNext(s)
    \/ fireReturn(s)
    \/ release(s)

SpecOverlap == InitOverlap /\ [][NextOverlap]_vars

\* Rule management: the automation controller's handlers and direct calls of its
\* functions, over the stores of at most one rule, with updateProject changing the
\* statuses the rules are validated against
InitRules == Init /\ Len(automations) <= 1

NextRules ==
  \/ createAutomation(1)
  \/ updateAutomation(1)
  \/ deleteAutomation(1)
  \/ toggleAutomation(1)
  \/ updateProject(1)
  \/ callValidateAutomationLogic(1)
  \/ callValidate(1)
  \/ callAutomationCreate(1)
  \/ callUpdatedAutomation(1)
  \/ callUpdateValidates(1)
  \/ callToggled(1)
  \/ callToggledTwice(1)
  \/ release(1)

SpecRules == InitRules /\ [][NextRules]_vars

\* Project administration: the project controller's handlers that create projects
\* and change their statuses and members, one request at a time, with no rules stored
InitAdmin == Init /\ automations = <<>>

NextAdmin ==
  \/ createProject(1)
  \/ updateProject(1)
  \/ addProjectMember(1)
  \/ removeProjectMember(1)
  \/ unassignTasks(1)
  \/ updateMemberRole(1)
  \/ release(1)

SpecAdmin == InitAdmin /\ [][NextAdmin]_vars

\* Task documents: tasks are created, and updateTask's save is applied to them
NextTaskSave ==
  \/ createTask(1)
  \/ fireReturn(1)
  \/ callTaskSave(1)
  \/ release(1)

SpecTaskSave == InitAdmin /\ [][NextTaskSave]_vars

\* Overlapping requests on a task's status: in every slot updateTask, and
\* updateProject interleaved at its awaits, over a store that holds one task of p1
StoredTask(status, assignee) ==
  [id |-> 1, project |-> "p1", status |-> status, assignee |-> assignee, creator |-> "u1",
   history |-> <<HistoryEntry("u1", "created", NoValue, "title")>>]

InitStatusRace ==
  /\ projects = InitProjects
  /\ tasks = <<StoredTask("To Do", NoValue)>>
  /\ automations = <<>>
  /\ badges = [u \in Users |-> <<>>]
  /\ notifications = <<>>
  /\ fires = [s \in Slots |-> Idle]
  /\ firings = [r \in RuleIds |-> [n |-> 0, projects |-> {}]]

NextStatusRace ==
  \E s \in Slots :
    \/ updateTask(s)
    \/ updateProjectFind(s)
    \/ updateProjectSave(s)
    \/ release(s)

SpecStatusRace == InitStatusRace /\ [][NextStatusRace]_vars

\* Overlapping requests on a task's assignee: in every slot createTask interleaved
\* at its awaits, updateTask, and removeProjectMember interleaved at its awaits
NextMemberRace ==
  \E s \in Slots :
    \/ createTaskFind(s)
    \/ createTaskCreate(s)
    \/ fireReturn(s)
    \/ updateTask(s)
    \/ removeProjectMember(s)
    \/ unassignTasks(s)
    \/ release(s)

SpecMemberRace == InitAdmin /\ [][NextMemberRace]_vars

\* Deleting projects: over stores that hold a task of p1, its notification and a
\* rule, members are invited and projects deleted, one request at a time
InitDelete ==
  /\ projects = InitProjects
  /\ \E assignee \in {NoValue, "u2"} :
       /\ tasks = <<StoredTask("To Do", assignee)>>
       /\ notifications = IF assignee = NoValue THEN <<>>
                          ELSE <<Notification(assignee, "task_assignment", "p1", 1)>>
  /\ automations \in {store \in RuleStores : Len(store) <= 1}
  /\ badges = [u \in Users |-> <<>>]
  /\ fires = [s \in Slots |-> Idle]
  /\ firings = [r \in RuleIds |-> [n |-> 0, projects |-> {}]]

NextDelete ==
  \/ addProjectMember(1)
  \/ deleteProject(1)
  \/ release(1)

SpecDelete == InitDelete /\ [][NextDelete]_vars

\* Repeated validation: validateAutomationLogic is called, in every slot, between
\* updateProject requests that change the stored statuses
NextCalls ==
  \E s \in Slots :
    \/ callValidateAutomationLogic(s)
    \/ updateProject(s)
    \/ release(s)

SpecCalls == InitAdmin /\ [][NextCalls]_vars

(* ------------------------------------------------------------------ *)
(* Properties                                                          *)
(* ------------------------------------------------------------------ *)
\* the invocation in slot s has attempted every rule it loaded
Finished(s) == fires[s].pc = "fire" /\ fires[s].queue = <<>>

\* the ids of the rules the invocation f has attempted or is still to attempt
Scheduled(f) == Range(f.order) \cup {f.queue[k].id : k \in DOMAIN f.queue}

\* rule a's trigger is the event's: same kind, and the kind's condition on the task
TriggerFits(a, event) ==
  /\ a.trigger.type = event.kind
  /\ event.kind = "task_status_changed" => a.trigger.value = event.task.status
  /\ event.kind = "task_assigned" =>
       (a.trigger.value = NoValue \/ a.trigger.value = event.task.assignee)

\* the stored rules that match the event: active, of the task's project, trigger fits
Matching(event) ==
  {i \in DOMAIN automations :
     /\ automations[i].active
     /\ automations[i].project = event.task.project
     /\ TriggerFits(automations[i], event)}

C1_Totals ==
  \A s \in Slots : fires[s].pc = "fire" =>
    LET f == fires[s] IN
    /\ Len(f.order) = f.result.attempted
    /\ f.result.succeeded + Len(f.result.failures) = f.result.attempted
    /\ \A a, b \in DOMAIN f.order : a # b => f.order[a] # f.order[b]
    /\ Range(f.order) \subseteq Matching(f.event)
    /\ f.queue = <<>> => Range(f.order) = Matching(f.event)
    /\ f.queue = <<>> => f.result.attempted = Cardinality(Matching(f.event))

C1_Attempt ==
  \A s \in Slots :
    (/\ fires[s].pc = "fire"
     /\ fires'[s].pc = "fire"
     /\ fires'[s].result.attempted = fires[s].result.attempted + 1) =>
      LET f == fires[s]
          rule == Head(f.queue)
          succeeded == fires'[s].result.succeeded = f.result.succeeded + 1
      IN  /\ fires'[s].order = Append(f.order, rule.id)
          /\ fires'[s].queue = Tail(f.queue)
          /\ \/ succeeded /\ fires'[s].result.failures = f.result.failures
             \/ /\ fires'[s].result.succeeded = f.result.succeeded
                /\ Len(fires'[s].result.failures) = Len(f.result.failures) + 1
                /\ fires'[s].result.failures[Len(f.result.failures) + 1].ruleId = rule.id
                /\ SubSeq(fires'[s].result.failures, 1, Len(f.result.failures))
                     = f.result.failures

\* C1: error isolation in fire. Every rule that matches the event is attempted
\* exactly once, also after an earlier matching rule's action failed: when the
\* invocation returns, attempted is the number of matching rules and the attempted
\* rules are the matching ones; succeeded plus the number of recorded failures is
\* attempted; every attempt that fails appends one failure entry naming its rule.
C1_ErrorIsolation == [] C1_Totals /\ [][C1_Attempt]_vars

\* an earlier matching rule failed and the later one was attempted and succeeded
C1_Witness ==
  \E s \in Slots :
    /\ Finished(s)
    /\ fires[s].result.attempted = 2
    /\ fires[s].result.succeeded = 1
    /\ fires[s].result.failures[1].ruleId = fires[s].order[1]

C2_NeverScheduled ==
  \A s \in Slots : fires[s].pc = "fire" =>
    /\ \A i \in Scheduled(fires[s]) : automations[i].active
    /\ \A k \in DOMAIN fires[s].result.failures :
         automations[fires[s].result.failures[k].ruleId].active

C2_CountKept ==
  \A i \in DOMAIN automations :
    (~ automations[i].active /\ i \in DOMAIN automations') =>
      automations'[i].executionCount = automations[i].executionCount

\* C2: a rule whose active flag is false is never attempted by a fire (it is neither
\* among the rules the invocation loaded nor among those it attempted), never
\* appears in its result, and no step changes its executionCount, whatever its
\* trigger and the event are.
C2_InactiveNeverFires == [] C2_NeverScheduled /\ [][C2_CountKept]_vars

\* a fire returned, having attempted a rule, while an inactive rule of the task's
\* project whose trigger fits the event was left out
C2_Witness ==
  \E s \in Slots :
    /\ Finished(s)
    /\ fires[s].result.attempted >= 1
    /\ \E i \in DOMAIN automations :
         /\ ~ automations[i].active
         /\ automations[i].project = fires[s].event.task.project
         /\ TriggerFits(automations[i], fires[s].event)
         /\ i \notin Range(fires[s].order)
         /\ automations[i].executionCount = 0

\* C3: for a task_status_changed event, an active rule of the task's project with
\* trigger value S is matched (loaded for the attempt) if and only if the status of the
\* task passed to fire equals S, whatever context.oldStatus is.
C3_StatusMatch ==
  \A s \in Slots :
    (fires[s].pc = "fire" /\ fires[s].event.kind = "task_status_changed") =>
      \A i \in DOMAIN automations :
        (/\ automations[i].active
         /\ automations[i].project = fires[s].event.task.project
         /\ automations[i].trigger.type = "task_status_changed") =>
          (i \in Scheduled(fires[s])
             <=> automations[i].trigger.value = fires[s].event.task.status)

\* a rule on "Done" was attempted for a task that is "Done" now and was "To Do" before
C3_Witness ==
  \E s \in Slots :
    /\ Finished(s)
    /\ fires[s].event.kind = "task_status_changed"
    /\ fires[s].event.task.status = "Done"
    /\ fires[s].event.context.oldStatus = "To Do"
    /\ \E i \in Range(fires[s].order) : automations[i].trigger.value = "Done"

\* C4: fire is order-preserving. A rule's id is its position in creation order; the
\* rules an invocation has attempted, followed by those it is still to attempt, are
\* in increasing creation order, so of two matching rules the one created first is
\* attempted, and its outcome recorded, before the other is attempted.
C4_OrderPreserving ==
  \A s \in Slots : fires[s].pc = "fire" =>
    LET f == fires[s]
        ids == f.order \o [k \in DOMAIN f.queue |-> f.queue[k].id]
    IN  /\ \A a, b \in DOMAIN ids : a < b => ids[a] < ids[b]
        /\ \A i \in Scheduled(f) : i \in DOMAIN automations

\* two rules matched and both were attempted
C4_Witness ==
  \E s \in Slots :
    /\ Finished(s)
    /\ Len(fires[s].order) = 2
    /\ fires[s].order[1] < fires[s].order[2]

C5_Counted ==
  \A i \in DOMAIN automations : automations[i].executionCount = firings[i].n

C5_Change ==
  \A i \in DOMAIN automations : i \in DOMAIN automations' =>
    /\ automations'[i].executionCount >= automations[i].executionCount
    /\ automations'[i].executionCount # automations[i].executionCount =>
         /\ automations'[i].executionCount = automations[i].executionCount + 1
         /\ \E s \in Slots :
              /\ fires[s].pc = "fire" /\ fires[s].queue # <<>>
              /\ Head(fires[s].queue).id = i
              /\ i \in Matching(fires[s].event)
              /\ fires'[s].pc = "fire"
              /\ fires'[s].result.succeeded = fires[s].result.succeeded + 1
              /\ fires'[s].result.failures = fires[s].result.failures

C5_FailureKeeps ==
  \A s \in Slots :
    (/\ fires[s].pc = "fire" /\ fires'[s].pc = "fire"
     /\ fires'[s].result.attempted = fires[s].result.attempted + 1
     /\ fires'[s].result.succeeded = fires[s].result.succeeded) =>
      automations' = automations

\* C5: a rule's executionCount never decreases; at every moment, so also after any
\* number of sequential or overlapping invocations have returned, it is its initial
\* value (0) plus the number of successful firings of the rule; it changes only by
\* one, in a step where the rule, matching the event, is attempted and succeeds; an
\* attempt that fails changes no rule.
C5_ExecutionCount == [] C5_Counted /\ [][C5_Change /\ C5_FailureKeeps]_vars

\* two invocations that overlap have both fired the same rule
C5_Witness ==
  \E i \in DOMAIN automations :
    /\ automations[i].executionCount = 2
    /\ \A s \in {1, 2} : fires[s].pc = "fire" /\ i \in Range(fires[s].order)

\* C6: a fire for a task of project P never attempts, counts or updates a rule of
\* another project: every rule it loads, attempts or records belongs to the task's
\* project, and every successful firing of a rule was for a task of the rule's project.
C6_ProjectIsolation ==
  /\ \A s \in Slots : fires[s].pc = "fire" =>
       /\ \A i \in Scheduled(fires[s]) :
            automations[i].project = fires[s].event.task.project
       /\ \A k \in DOMAIN fires[s].result.failures :
            automations[fires[s].result.failures[k].ruleId].project
              = fires[s].event.task.project
  /\ \A i \in DOMAIN automations :
       /\ firings[i].projects \subseteq {automations[i].project}
       /\ automations[i].executionCount > 0 => firings[i].projects # {}

\* a fire returned, having attempted a rule, while an active rule of another project
\* whose trigger fits the event was left out
C6_Witness ==
  \E s \in Slots :
    /\ Finished(s)
    /\ fires[s].result.attempted >= 1
    /\ \E i \in DOMAIN automations :
         /\ automations[i].active
         /\ automations[i].project # fires[s].event.task.project
         /\ TriggerFits(automations[i], fires[s].event)
         /\ i \notin Range(fires[s].order)
         /\ automations[i].executionCount = 0

\* the invocation in slot s attempts a change_status rule whose status is not among
\* the statuses of the task's project
C7_Case(s) ==
  /\ fires[s].pc = "fire"
  /\ fires[s].queue # <<>>
  /\ Head(fires[s].queue).action.type = "change_status"
  /\ Head(fires[s].queue).action.param
       \notin Range(projects[tasks[fires[s].event.task.id].project].statuses)
  /\ fires'[s].pc = "fire"
  /\ fires'[s].order = Append(fires[s].order, Head(fires[s].queue).id)

C7_Effect(s) ==
  /\ fires'[s].result.attempted = fires[s].result.attempted + 1
  /\ fires'[s].result.succeeded = fires[s].result.succeeded
  /\ fires'[s].result.failures =
       Append(fires[s].result.failures,
              [ruleId |-> Head(fires[s].queue).id, error |-> "invalid_status"])
  /\ tasks' = tasks
  /\ automations' = automations

\* C7: when a matching rule's change_status action names a status that is not in the
\* task's project's status set at firing time, the action fails with invalid_status:
\* the firing is counted in attempted and not in succeeded, and the tasks (status and
\* history) and the rules (executionCount) are left unchanged.
C7_InvalidStatus == [][\A s \in Slots : C7_Case(s) => C7_Effect(s)]_vars

\* a fire recorded an invalid_status failure
C7_Witness ==
  \E s \in Slots :
    /\ fires[s].pc = "fire"
    /\ \E k \in DOMAIN fires[s].result.failures :
         fires[s].result.failures[k].error = "invalid_status"

\* the calls that write the task
TaskWrites == {"Task.create", "task.save"}

\* the calls made so far by the request served in slot s
Calls(s) == IF fires[s].pc \in {"fire", "responded"} THEN fires[s].trace ELSE <<>>

\* the handler of the request served in slot s
Handler(s) ==
  IF fires[s].pc = "fire" THEN fires[s].origin.op
  ELSE IF fires[s].pc = "responded" THEN fires[s].op
  ELSE NoValue

\* C8, as the specification states it: createTask and updateTask report success
\* whenever the task's write was persisted, whatever the runAutomations calls that
\* follow do, also when one of them raises an error.
C8_SuccessReported ==
  \A s \in Slots :
    (/\ fires[s].pc = "responded"
     /\ fires[s].op \in {"createTask", "updateTask"}
     /\ \E k \in DOMAIN fires[s].trace : fires[s].trace[k] \in TaskWrites) =>
      fires[s].code \in {200, 201}

\* C9: in createTask and updateTask every runAutomations invocation comes after the
\* call that writes the task, the task of a handler's first invocation is the stored
\* task as written, and a request answered 400, 403 or 404 (task or project not found,
\* actor not a member, status or assignee invalid) has invoked runAutomations not once.
C9_AfterWrite ==
  \A s \in Slots : Handler(s) \in {"createTask", "updateTask"} =>
    LET calls == Calls(s)
        invocations == {k \in DOMAIN calls : calls[k] \in EventKinds}
    IN  /\ \A k \in invocations : \E j \in 1..(k - 1) : calls[j] \in TaskWrites
        /\ (fires[s].pc = "responded" /\ fires[s].code \in {400, 403, 404}) =>
             invocations = {}
        /\ (fires[s].pc = "fire" /\ Cardinality(invocations) = 1 /\ fires[s].order = <<>>) =>
             /\ fires[s].event.task.id \in DOMAIN tasks
             /\ Snapshot(tasks[fires[s].event.task.id]) = fires[s].event.task

\* a createTask request wrote the task, notified the assignee, fired task_created and
\* was answered 201
C9_Witness ==
  \E s \in Slots :
    /\ fires[s].pc = "responded"
    /\ fires[s].op = "createTask"
    /\ fires[s].code = 201
    /\ fires[s].trace = <<"Task.create", "Notification.create", "task_created">>

ViewerOnly(u) ==
  /\ \A p \in DOMAIN projects : projects[p].owner # u
  /\ \A p \in DOMAIN projects : \A i \in DOMAIN projects[p].members :
       projects[p].members[i].user = u => projects[p].members[i].role = "viewer"
  /\ \E p \in DOMAIN projects : \E i \in DOMAIN projects[p].members :
       projects[p].members[i].user = u

\* C11, as the specification states it: createAutomation rejects a member with
\* role viewer with an authorization error (403; 404 when the project does not
\* exist), and stores a rule only for the project's owner or an editor.
C11_ViewerForbidden ==
  \A s \in Slots :
    (/\ fires[s].pc = "responded"
     /\ fires[s].op = "createAutomation"
     /\ ViewerOnly(fires[s].user)) =>
      fires[s].code \in {403, 404}

\* user u is the owner of rule a's project, a's creator, or an editor of the project
MayManage(u, a) ==
  \/ projects[a.project].owner = u
  \/ a.creator = u
  \/ \E i \in DOMAIN projects[a.project].members :
       /\ projects[a.project].members[i].user = u
       /\ projects[a.project].members[i].role = "editor"

\* C12, as the specification states it: updateAutomation, deleteAutomation and
\* toggleAutomation pass authorization if and only if the user is the owner of the
\* rule's project, the rule's creator or an editor of the project; so a request is
\* answered 403 only when some stored rule is not the user's to manage.
C12_ManagersPass ==
  \A s \in Slots :
    (/\ fires[s].pc = "responded"
     /\ fires[s].op \in {"updateAutomation", "deleteAutomation", "toggleAutomation"}
     /\ fires[s].code = 403) =>
      \E i \in DOMAIN automations : ~ MayManage(fires[s].user, automations[i])

\* the handlers of the automation controller that write rules
RuleHandlers ==
  {"createAutomation", "updateAutomation", "deleteAutomation", "toggleAutomation"}

\* the request served in slot s is answered with a rejection in this step
Rejected(s) ==
  /\ fires[s] = Idle
  /\ fires'[s].pc = "responded"
  /\ fires'[s].op \in RuleHandlers
  /\ fires'[s].code \notin {200, 201}

\* C13: when createAutomation, updateAutomation, deleteAutomation or toggleAutomation
\* is rejected (not found, not authorized, invalid), the rule store is unchanged: no
\* rule is created or deleted and no field of a rejected update is persisted.
C13_RejectionKeepsStore ==
  [][\A s \in Slots : Rejected(s) => automations' = automations]_vars

\* an update of a stored rule was rejected
C13_Witness ==
  \E s \in Slots :
    /\ fires[s].pc = "responded"
    /\ fires[s].op = "updateAutomation"
    /\ fires[s].code = 403
    /\ Len(automations) = 1

\* the status names a rule spec refers to: the value of a task_status_changed
\* trigger and the status of a change_status action, where the spec carries one
StatusReferences(trigger, action) ==
  (IF trigger.type = "task_status_changed" /\ trigger.value \notin {NoValue, ""}
   THEN {trigger.value} ELSE {})
  \cup (IF action.type = "change_status" /\ action.param \notin {NoValue, ""}
        THEN {action.param} ELSE {})

Structural(trigger, action) ==
  /\ trigger.type = "task_status_changed" =>
       trigger.value \notin {NoValue, "", NotAString}
  /\ action.type \in {"assign_badge", "change_status", "send_notification"} =>
       action.param \notin {NoValue, "", NotAString}
  /\ action.type = "assign_user" => action.param \in Users

\* C15: every stored rule has the kind-specific shape, and the schema validation
\* that Automation.create and automation.save run passes only specs of that shape,
\* so a spec violating it is rejected and not stored.
C15_StructuralValidation ==
  /\ \A i \in DOMAIN automations :
       Structural(automations[i].trigger, automations[i].action)
  /\ \A s \in Slots :
       (fires[s].pc = "returned" /\ fires[s].fn = "validate" /\ fires[s].result) =>
         Structural(fires[s].args.trigger, fires[s].args.action)

\* a spec whose badge name is not a string was rejected by the validation
C15_Witness ==
  \E s \in Slots :
    /\ fires[s].pc = "returned"
    /\ fires[s].fn = "validate"
    /\ fires[s].args.trigger = Trigger("task_status_changed", "Done")
    /\ fires[s].args.action = Action("assign_badge", NotAString)
    /\ ~ fires[s].result

\* C16, as the specification states it: a rule with trigger kind task_assigned that
\* carries no condition can be created and stored, so the validation of a spec with
\* such a trigger and a well-shaped action passes.
C16_AssignedWithoutCondition ==
  \A s \in Slots :
    (/\ fires[s].pc = "returned"
     /\ fires[s].fn = "validate"
     /\ fires[s].args.trigger = Trigger("task_assigned", NoValue)
     /\ Structural(fires[s].args.trigger, fires[s].args.action)) =>
      fires[s].result

C17_Documents ==
  \A s \in Slots : fires[s].pc = "returned" =>
    /\ fires[s].fn = "Automation.create" =>
         fires[s].result.executionCount = 0 /\ fires[s].result.lastExecuted = 0
    /\ fires[s].fn \in {"updateAutomation", "toggleAutomation"} =>
         /\ fires[s].result.executionCount = fires[s].args.executionCount
         /\ fires[s].result.lastExecuted = fires[s].args.lastExecuted

C17_Requests ==
  \A i \in DOMAIN automations : i \in DOMAIN automations' =>
    /\ automations'[i].executionCount = automations[i].executionCount
    /\ automations'[i].lastExecuted = automations[i].lastExecuted

\* C17: execution metadata is never changed by user edits. The document
\* createAutomation stores has executionCount 0 and no lastExecuted whatever the body
\* carries; the documents updateAutomation and toggleAutomation save keep the rule's
\* executionCount and lastExecuted whatever the body carries; and no request of the
\* rule management (none of which fires) changes a stored rule's metadata.
C17_MetadataKept == [] C17_Documents /\ [][C17_Requests]_vars

\* an update whose body carries an executionCount and a new trigger was applied to a
\* rule that had fired: the trigger changed, the count did not
C17_Witness ==
  \E s \in Slots :
    /\ fires[s].pc = "returned"
    /\ fires[s].fn = "updateAutomation"
    /\ fires[s].args.executionCount = 1
    /\ fires[s].result.trigger # fires[s].args.trigger
    /\ fires[s].result.executionCount = 1

\* an updateProject request is answered in slot s in this step
UpdateProjectAnswered(s) ==
  /\ fires[s] = Idle
  /\ fires'[s].pc = "responded"
  /\ fires'[s].op = "updateProject"

\* C18: updateProject replacing a project's statuses neither modifies a rule nor is
\* rejected because of one: whatever it answers, the rule store is the same after it,
\* and it answers 400 only when there is a task in a project of the requesting owner.
C18_RulesUntouched ==
  [][\A s \in Slots : UpdateProjectAnswered(s) =>
       /\ automations' = automations
       /\ fires'[s].code = 400 =>
            \E t \in DOMAIN tasks : projects[tasks[t].project].owner = fires'[s].user]_vars

\* updateProject removed the status "Done" and a rule whose trigger names "Done" is
\* still stored, active, with its trigger
C18_Witness ==
  \E s \in Slots :
    /\ fires[s].pc = "responded"
    /\ fires[s].op = "updateProject"
    /\ fires[s].code = 200
    /\ "Done" \notin Range(projects["p1"].statuses)
    /\ \E i \in DOMAIN automations :
         /\ automations[i].project = "p1"
         /\ automations[i].active
         /\ automations[i].trigger = Trigger("task_status_changed", "Done")

C19_StatusDeclared ==
  \A t \in DOMAIN tasks :
    tasks[t].status \in Range(projects[tasks[t].project].statuses)

C19_RejectionKeeps ==
  \A s \in Slots :
    (/\ fires[s] = Idle
     /\ fires'[s].pc = "responded"
     /\ fires'[s].op \in {"createTask", "updateTask", "updateProject"}
     /\ fires'[s].code = 400) =>
      tasks' = tasks /\ projects' = projects

\* C19: with createTask, updateTask and updateProject executing one request at a
\* time, in every reachable state every task's status is the name of a status in its
\* project's current statuses; a request answered 400 (a task status not in the
\* statuses, or new statuses lacking a status a task still has) changes neither the
\* tasks nor the projects.
C19_TaskStatusValid == [] C19_StatusDeclared /\ [][C19_RejectionKeeps]_vars

\* an updateProject request that would have removed the status of a stored task was
\* rejected
C19_Witness ==
  \E s \in Slots :
    /\ fires[s].pc = "responded"
    /\ fires[s].op = "updateProject"
    /\ fires[s].code = 400
    /\ \E t \in DOMAIN tasks : tasks[t].project = "p1" /\ tasks[t].status = "Done"
    /\ projects["p1"].statuses = DefaultStatuses

\* sequence a is a prefix of sequence b
IsPrefix(a, b) == Len(a) <= Len(b) /\ SubSeq(b, 1, Len(a)) = a

\* the request served in slot s is an updateTask or addTaskComment request that
\* saves the task in this step
SavesTask(s) ==
  /\ fires[s] = Idle
  /\ \/ fires'[s].pc = "fire" /\ fires'[s].origin.op = "updateTask"
     \/ /\ fires'[s].pc = "responded"
        /\ fires'[s].op \in {"updateTask", "addTaskComment"}
        /\ fires'[s].code = 200 \/ fires'[s].trace # <<>>

C20_Step ==
  /\ \A t \in DOMAIN tasks :
       /\ t \in DOMAIN tasks'
       /\ IsPrefix(tasks[t].history, tasks'[t].history)
  /\ \A s \in Slots : SavesTask(s) =>
       \E t \in DOMAIN tasks : Len(tasks'[t].history) > Len(tasks[t].history)

C21_StatusesNonEmpty ==
  \A p \in DOMAIN projects :
    /\ Len(projects[p].statuses) >= 1
    /\ hasStatus(projects[p], projects[p].statuses[1])

\* a project was created, and a request was answered 500 for its empty list of statuses
C21_Witness ==
  \E s \in Slots :
    /\ fires[s].pc = "responded"
    /\ fires[s].op \in {"createProject", "updateProject"}
    /\ fires[s].code = 500
    /\ DOMAIN projects # ProjectIds

\* a call of validateAutomationLogic has returned in slot s
Validated(s) == fires[s].pc = "returned" /\ fires[s].fn = "validateAutomationLogic"

C22_SameVerdict ==
  \A s, t \in Slots :
    (Validated(s) /\ Validated(t) /\ fires[s].args = fires[t].args) =>
      fires[s].result = fires[t].result

C22_NoEffect ==
  \A s \in Slots :
    (fires[s] = Idle /\ fires'[s].pc = "returned"
       /\ fires'[s].fn = "validateAutomationLogic") =>
      /\ projects' = projects
      /\ automations' = automations
      /\ tasks' = tasks
      /\ \E p \in DOMAIN projects : fires'[s].args.statuses = projects[p].statuses

C23_SuppliedPairDecides ==
  \A s \in Slots :
    (/\ fires[s].pc = "returned"
     /\ fires[s].fn = "updateAutomation.validate"
     /\ fires[s].args.body.trigger # NoTrigger
     /\ fires[s].args.body.action # NoAction
     /\ validateAutomationLogic(fires[s].args.body.trigger, fires[s].args.body.action,
                                [statuses |-> fires[s].args.statuses])) =>
      fires[s].result

\* the entries that history b has after those of history a
Appended(a, b) == {b[k] : k \in (Len(a) + 1)..Len(b)}

\* C24, as the specification states it: when the save of an update changes the task's
\* status from A to B, a status_changed entry with oldValue A and newValue B is
\* appended; when it changes the assignee, an assigned entry with the previous
\* assignee as oldValue and the new one as newValue.
C24_OldValueRecorded ==
  \A s \in Slots :
    (fires[s].pc = "returned" /\ fires[s].fn = "task.save") =>
      LET old == fires[s].args.task
          new == fires[s].result
          entries == Appended(old.history, new.history)
      IN  /\ new.status # old.status =>
               \E e \in entries : /\ e.action = "status_changed"
                                  /\ e.oldValue = old.status
                                  /\ e.newValue = new.status
          /\ new.assignee # old.assignee =>
               \E e \in entries : /\ e.action = "assigned"
                                  /\ e.oldValue = old.assignee
                                  /\ e.newValue = new.assignee

\* no updateProject request is between its reads and its write
C25_Finished == \A s \in Slots : fires[s].pc # "updateProject.save"

C26_Completed == \A s \in Slots : fires[s].pc \in {"idle", "responded"}

\* no removeProjectMember request has failed in its transaction
C26_NoneFailed ==
  \A s \in Slots :
    ~ (fires[s].pc = "responded" /\ fires[s].op = "removeProjectMember"
         /\ fires[s].code = 500)

\* C26, as stated: with createTask, updateTask and removeProjectMember requests
\* interleaved at their store reads and writes, once every request has been answered
\* (none of them with a failure of the store) every task's assignee is null or a
\* member of the task's project.
C26_AssigneesAreMembers ==
  (C26_Completed /\ C26_NoneFailed) =>
    \A t \in DOMAIN tasks :
      \/ tasks[t].assignee = NoValue
      \/ \E i \in DOMAIN projects[tasks[t].project].members :
           projects[tasks[t].project].members[i].user = tasks[t].assignee

\* C27, as stated: two toggles of the same rule, each flipping the flag of the
\* document it read and saving it, leave the stored flag at its original value, also
\* when both requests have read the rule before either saves.
C27_TwoTogglesRestore ==
  \A s \in Slots :
    (fires[s].pc = "returned" /\ fires[s].fn = "toggleAutomation.twice") =>
      fires[s].result.active = fires[s].args.automation.active

\* a deleteProject request is answered in slot s in this step
DeleteProjectAnswered(s) ==
  /\ fires[s] = Idle
  /\ fires'[s].pc = "responded"
  /\ fires'[s].op = "deleteProject"

\* nothing stored refers to project p
Unreferenced(p) ==
  /\ \A t \in DOMAIN tasks : tasks[t].project # p
  /\ \A i \in DOMAIN automations : automations[i].project # p
  /\ \A n \in DOMAIN notifications : notifications[n].relatedProject # p

C28_Step ==
  \A s \in Slots : DeleteProjectAnswered(s) =>
    IF fires'[s].code = 200
    THEN /\ \E p \in DOMAIN projects :
              /\ projects[p].owner = fires'[s].user
              /\ DOMAIN projects' = DOMAIN projects \ {p}
              /\ Unreferenced(p)'
         /\ \A p \in DOMAIN projects' : projects'[p] = projects[p]
    ELSE /\ projects' = projects
         /\ tasks' = tasks
         /\ automations' = automations
         /\ notifications' = notifications

\* C28: deleteProject is all-or-nothing. When it answers 200 the requesting owner's
\* project is gone, the other projects are as they were and no task, rule or
\* notification refers to the deleted one; when it answers anything else, a step of
\* its transaction having failed or the request having been rejected, projects,
\* tasks, rules and notifications are unchanged. At all times every task, rule and
\* notification of projects p1 and p2 refers to a stored project.
C28_AllOrNothing ==
  /\ [] (\A p \in ProjectIds \ DOMAIN projects : Unreferenced(p))
  /\ [][C28_Step]_vars

\* deleteProject of p1 failed in its transaction, and p1, its task and a rule of p1
\* are still stored
C28_Witness ==
  \E s \in Slots :
    /\ fires[s].pc = "responded"
    /\ fires[s].op = "deleteProject"
    /\ fires[s].code = 500
    /\ fires[s].user = "u1"
    /\ "p1" \in DOMAIN projects
    /\ \E t \in DOMAIN tasks : tasks[t].project = "p1"
    /\ \E i \in DOMAIN automations : automations[i].project = "p1"

\* the positions in project's members that hold the role owner
OwnerEntries(project) ==
  {i \in DOMAIN project.members : project.members[i].role = "owner"}

\* C29: whatever createProject, addProjectMember, removeProjectMember and
\* updateMemberRole requests were served, every project's owner is listed in its
\* members with the role owner, and no other member, and no second entry, has that
\* role.
C29_OwnerIsMember ==
  \A p \in DOMAIN projects :
    /\ \E i \in OwnerEntries(projects[p]) : projects[p].members[i].user = projects[p].owner
    /\ \A i \in OwnerEntries(projects[p]) : projects[p].members[i].user = projects[p].owner
    /\ Cardinality(OwnerEntries(projects[p])) = 1
    /\ \A i, j \in DOMAIN projects[p].members :
         projects[p].members[i].user = projects[p].members[j].user => i = j

\* a project was created and given a second member, and a request to remove an
\* owner was refused
C29_Witness ==
  \E s \in Slots :
    /\ fires[s].pc = "responded"
    /\ fires[s].op = "removeProjectMember"
    /\ fires[s].code = 400
    /\ \E p \in DOMAIN projects \ ProjectIds : Len(projects[p].members) >= 2

\* C30, as stated: the controllers' tests agree with the middleware's. For every
\* user and stored project, a user whom projectAccess admits as a member is found
\* by the controllers' membership test, and a user whom projectOwner admits as the
\* owner is recognised by the controllers' owner test.
C30_TestsAgree ==
  \A u \in Users, p \in DOMAIN projects :
    /\ projectAccess(protect(u), p) = 200 =>
         \E i \in DOMAIN projects[p].members :
           sameUser(projects[p].members[i].user, protect(u))
    /\ projectOwner(protect(u), p) = 200 => sameUser(projects[p].owner, protect(u))

====
